---- MODULE Spec2Model ----
(***************************************************************************)
(* A model of the Terra Futura rules engine (package terra_futura).        *)
(*                                                                         *)
(* Part 1: Grid (src/terra_futura/grid.py).  A Grid keeps a dictionary     *)
(* from GridPosition to card, the current activation pattern (a list of    *)
(* GridPosition) and the set of positions already activated this turn.     *)
(* Every public method of Grid is one action; `raised` records whether the *)
(* call returned or which ValueError it raised.                            *)
(*                                                                         *)
(* Part 2: Pile and RandomShuffler (src/terra_futura/pile.py).  A Pile     *)
(* keeps three lists of cards (visible, hidden, discarded) and a shuffler; *)
(* its constructor and its public methods are one action each, the refill  *)
(* loop _fill_visible is a recursive operator.                             *)
(*                                                                         *)
(* Each part has its own specification, which leaves the variables of the  *)
(* other parts alone.                                                      *)
(***************************************************************************)
EXTENDS Integers, Sequences, FiniteSets, TLC

\* ------------------------------------------------------------------ bounds
\* Coordinates offered to the grid run from -1 to MaxCoord (a 4 x 4 board for
\* MaxCoord = 2: wide enough for a fourth row or column to be attempted).
MaxCoord == 2
\* Distinct card objects offered to putCard.
NumCards == 2

\* ------------------------------------------------------- program constants
\* Grid._MAX_SIZE
MAX_SIZE == 3

Coords == -1 .. MaxCoord
\* GridPosition(x, y) is the pair <<x, y>>.
GridPosition == Coords \X Coords
Cards == 1 .. NumCards
\* Python's None (the result of dict.get on a missing key).
None == 0

X(pos) == pos[1]
Y(pos) == pos[2]

\* The calls of putCard the model makes: card 1 at any position, and every card
\* at the positions of StartPositions, so that a placed card meets a different
\* card offered at its own position.
StartPositions == { <<0, 0>>, <<1, 0>> }
PutInputs == (GridPosition \X {1}) \cup (StartPositions \X Cards)

\* The lists handed to setActivationPattern: the pattern of
\* test_setActivationPattern_raises_if_grid_not_full and the first two positions
\* of the pattern of test_setActivationPattern_offsets_pattern_to_grid_coordinates.
PatternInputs ==
    { << <<0, 0>> >>,
      << <<0, 0>>, <<1, 0>> >> }

\* The outcome of a call: ValueError's message when the call raised.
NoError == "ok"
PutError == "Cannot put card on this position"
ActivateError == "Cannot activate this card"

VARIABLES
    cells,                \* Grid._cells: position -> card, for occupied positions
    activation_pattern,   \* Grid._activation_pattern: sequence of positions
    activated_this_turn,  \* Grid._activated_this_turn: set of positions
    raised,               \* outcome of the last call: NoError or the error raised
    consumed,             \* history: positions whose setActivated succeeded since
                          \* the last successful putCard or endTurn
    turnEnded             \* history: endTurn was called and no putCard has
                          \* succeeded since

gridVars == <<cells, activation_pattern, activated_this_turn, raised, consumed, turnEnded>>

VARIABLES
    pile_phase,           \* "new" before Pile(...), then "live" or "failed"
    visible_cards,        \* Pile.visible_cards: sequence of cards
    hidden_cards,         \* Pile.hidden_cards: sequence of cards, top last
    discarded_cards,      \* Pile.discarded_cards: sequence of cards, top last
    pile_raised,          \* outcome of the last call on the pile
    returned,             \* the card the last takeCard returned, or None
    shuffler_calls        \* the shuffler's invocations during the last call: the
                          \* deck each received and the hidden stack at that time

pileVars == <<pile_phase, visible_cards, hidden_cards, discarded_cards,
              pile_raised, returned, shuffler_calls>>

VARIABLES
    seed_arg,             \* the seed both RandomShuffler instances were built with:
                          \* << >> for None, <<s>> for the integer s
    rng,                  \* rng[k]: the generator state of instance k
    output                \* output[k]: what instance k's last shuffle returned

shufflerVars == <<seed_arg, rng, output>>

VARIABLES
    reward_player,        \* SelectReward.player: None or the player
    reward_card,          \* SelectReward._card: None or the card
    reward_state,         \* SelectReward._state
    selection_ref,        \* which list object SelectReward.selection refers to
    lists,                \* the contents of the list objects: the caller's
                          \* options list and the list the SelectReward owns
    reward_raised         \* outcome of the last call on the SelectReward

rewardVars == <<reward_player, reward_card, reward_state, selection_ref, lists,
                reward_raised>>

VARIABLES
    game_state,           \* Game's turn state; "none" before Game(...)
    current_player,       \* the player on turn (onTurn())
    turn_number,          \* Game.turnNumber
    grids,                \* grids[p]: the Grid of player p (cells, activation
                          \* pattern, activated positions)
    patterns_selected,    \* the players that have selected an activation pattern
    scorings_selected,    \* the players that have selected a scoring method
    game_ok               \* what the last Game operation returned

gameVars == <<game_state, current_player, turn_number, grids,
              patterns_selected, scorings_selected, game_ok>>

VARIABLES
    card_live,            \* FALSE before the card is created
    pollutionSpacesL,     \* the card's pollution capacity
    pollution,            \* the card's _pollution
    card_resources,       \* the card's resources: a sequence of resources
    upperEffect,          \* TRUE when the card has an upper effect (not None)
    lowerEffect,          \* TRUE when the card has a lower effect (not None)
    card_returned,        \* what the last query of the card returned
    card_raised           \* the error the last card operation raised, or NoError

cardVars == <<card_live, pollutionSpacesL, pollution, card_resources,
              upperEffect, lowerEffect, card_returned, card_raised>>

VARIABLES
    scoring_live,         \* FALSE before the ScoringMethod is created
    scoring_required,     \* the required resources of the method
    scoring_points,       \* the base point value of the method
    scored_pool,          \* the resources pooled over the cards of the scored grid
    calculatedTotal,      \* the cached result: << >> for None, <<n>> for n
    scoring_state,        \* what the last state() call returned
    scoring_raised        \* the error the last ScoringMethod call raised, or NoError

scoringVars == <<scoring_live, scoring_required, scoring_points, scored_pool,
                 calculatedTotal, scoring_state, scoring_raised>>

\* What the operations of one part leave alone.  (A Game draws from a Pile:
\* its operations leave alone what is neither the Game's nor the Pile's.)
notGrid == <<pileVars, shufflerVars, rewardVars, gameVars, cardVars, scoringVars>>
notPile == <<gridVars, shufflerVars, rewardVars, gameVars, cardVars, scoringVars>>
notShuffler == <<gridVars, pileVars, rewardVars, gameVars, cardVars, scoringVars>>
notReward == <<gridVars, pileVars, shufflerVars, gameVars, cardVars, scoringVars>>
notGame == <<gridVars, shufflerVars, rewardVars, cardVars, scoringVars>>
notCard == <<gridVars, pileVars, shufflerVars, rewardVars, gameVars, scoringVars>>
notScoring == <<gridVars, pileVars, shufflerVars, rewardVars, gameVars, cardVars>>

vars == <<gridVars, pileVars, shufflerVars, rewardVars, gameVars, cardVars,
          scoringVars>>

gridState == <<cells, activation_pattern, activated_this_turn>>

hist == <<consumed, turnEnded>>

\* ---------------------------------------------------------------- helpers
\* Python's max and min of a non-empty list of integers.
Max(S) == CHOOSE m \in S : \A n \in S : n <= m
Min(S) == CHOOSE m \in S : \A n \in S : m <= n

\* The elements of a list (Python's `in` on a list).
Range(s) == { s[i] : i \in DOMAIN s }

\* ------------------------------------------------------------------- Grid
\* Grid.__init__
GridInit ==
    /\ cells = << >>
    /\ activation_pattern = << >>
    /\ activated_this_turn = {}

\* Grid._all_rows_cols_including: the x values and the y values of the occupied
\* positions and of coordinate (the code builds lists; only max and min are taken).
all_rows_including(coordinate) ==
    { X(pos) : pos \in DOMAIN cells } \cup { X(coordinate) }

all_cols_including(coordinate) ==
    { Y(pos) : pos \in DOMAIN cells } \cup { Y(coordinate) }

\* Grid.getCard
getCard(coordinate) ==
    IF coordinate \in DOMAIN cells THEN cells[coordinate] ELSE None

\* canPutCard without the width test.
canPutCard_heightOnly(coordinate) ==
    IF coordinate \in DOMAIN cells THEN FALSE
    ELSE IF DOMAIN cells = {} THEN TRUE
    ELSE LET col == all_cols_including(coordinate)
             height == Max(col) - Min(col) + 1
         IN  IF height > MAX_SIZE THEN FALSE ELSE TRUE

\* canPutCard with >= for >.
canPutCard_offByOne(coordinate) ==
    IF coordinate \in DOMAIN cells THEN FALSE
    ELSE IF DOMAIN cells = {} THEN TRUE
    ELSE LET row == all_rows_including(coordinate)
             col == all_cols_including(coordinate)
             width == Max(row) - Min(row) + 1
             height == Max(col) - Min(col) + 1
         IN  IF height >= MAX_SIZE \/ width >= MAX_SIZE THEN FALSE ELSE TRUE

\* canPutCard without the occupancy test.
canPutCard_noOccupied(coordinate) ==
    IF DOMAIN cells = {} THEN TRUE
    ELSE LET row == all_rows_including(coordinate)
             col == all_cols_including(coordinate)
             width == Max(row) - Min(row) + 1
             height == Max(col) - Min(col) + 1
         IN  IF height > MAX_SIZE \/ width > MAX_SIZE THEN FALSE ELSE TRUE

\* Grid.canPutCard
canPutCard(coordinate) ==
    IF coordinate \in DOMAIN cells THEN FALSE
    ELSE IF DOMAIN cells = {} THEN TRUE
    ELSE LET row == all_rows_including(coordinate)
             col == all_cols_including(coordinate)
             width == Max(row) - Min(row) + 1
             height == Max(col) - Min(col) + 1
         IN  IF height > MAX_SIZE \/ width > MAX_SIZE THEN FALSE ELSE TRUE

\* canBeActivated not asking whether the position holds a card.
canBeActivated_noCardCheck(coordinate) ==
    IF coordinate \notin Range(activation_pattern) THEN FALSE
    ELSE IF coordinate \in activated_this_turn THEN FALSE
    ELSE TRUE

\* Grid.canBeActivated
canBeActivated(coordinate) ==
    IF coordinate \notin DOMAIN cells THEN FALSE
    ELSE IF coordinate \notin Range(activation_pattern) THEN FALSE
    ELSE IF coordinate \in activated_this_turn THEN FALSE
    ELSE TRUE

\* putCard storing the card before it validates the position.
putCard_storeFirst(coordinate, card) ==
    IF ~canPutCard(coordinate)
    THEN /\ cells' = (coordinate :> card) @@ cells
         /\ raised' = PutError
         /\ UNCHANGED <<activation_pattern, activated_this_turn>>
    ELSE /\ cells' = (coordinate :> card) @@ cells
         /\ raised' = NoError
         /\ UNCHANGED <<activation_pattern, activated_this_turn>>

\* Grid.putCard
putCard(coordinate, card) ==
    IF ~canPutCard(coordinate)
    THEN /\ raised' = PutError
         /\ UNCHANGED <<cells, activation_pattern, activated_this_turn>>
    ELSE /\ cells' = (coordinate :> card) @@ cells
         /\ raised' = NoError
         /\ UNCHANGED <<activation_pattern, activated_this_turn>>

\* Grid.setActivated
setActivated(coordinate) ==
    IF ~canBeActivated(coordinate)
    THEN /\ raised' = ActivateError
         /\ UNCHANGED <<cells, activation_pattern, activated_this_turn>>
    ELSE /\ activated_this_turn' = activated_this_turn \cup {coordinate}
         /\ raised' = NoError
         /\ UNCHANGED <<cells, activation_pattern>>

\* Grid.setActivationPattern
setActivationPattern(pattern) ==
    /\ activation_pattern' = pattern
    /\ activated_this_turn' = {}
    /\ raised' = NoError
    /\ UNCHANGED cells

\* endTurn that also forgets the activation pattern.
endTurn_resetPattern ==
    /\ activated_this_turn' = {}
    /\ activation_pattern' = << >>
    /\ raised' = NoError
    /\ UNCHANGED cells

\* Grid.endTurn
endTurn ==
    /\ activated_this_turn' = {}
    /\ raised' = NoError
    /\ UNCHANGED <<cells, activation_pattern>>

\* ---------------------------------------------------------- specification
\* No Pile constructed yet.
PileNew ==
    /\ pile_phase = "new"
    /\ visible_cards = << >>
    /\ hidden_cards = << >>
    /\ discarded_cards = << >>
    /\ pile_raised = NoError
    /\ returned = None
    /\ shuffler_calls = << >>

\* No RandomShuffler constructed yet.
ShufflerNew ==
    /\ seed_arg = << >>
    /\ rng = << >>
    /\ output = << >>

\* An empty Grid (the state after Grid()).
GridNew ==
    /\ GridInit
    /\ raised = NoError
    /\ consumed = {}
    /\ turnEnded = FALSE

\* SelectReward.__init__; the caller holds an empty options list.
RewardNew ==
    /\ reward_player = None
    /\ reward_card = None
    /\ reward_state = "IDLE"
    /\ selection_ref = "own"
    /\ lists = [caller |-> << >>, own |-> << >>]
    /\ reward_raised = NoError

\* No Game constructed yet.
GameNew ==
    /\ game_state = "none"
    /\ current_player = None
    /\ turn_number = 0
    /\ grids = << >>
    /\ patterns_selected = {}
    /\ scorings_selected = {}
    /\ game_ok = TRUE

CardNew ==
    /\ card_live = FALSE
    /\ pollutionSpacesL = 0
    /\ pollution = 0
    /\ card_resources = << >>
    /\ upperEffect = FALSE
    /\ lowerEffect = FALSE
    /\ card_returned = FALSE
    /\ card_raised = NoError

ScoringNew ==
    /\ scoring_live = FALSE
    /\ scoring_required = << >>
    /\ scoring_points = 0
    /\ scored_pool = << >>
    /\ calculatedTotal = << >>
    /\ scoring_state = ""
    /\ scoring_raised = NoError

Init ==
    /\ GridNew
    /\ PileNew
    /\ ShufflerNew
    /\ RewardNew
    /\ GameNew
    /\ CardNew
    /\ ScoringNew

\* The calls of the public methods of Grid, the history left alone.
call_putCard ==
    /\ \E input \in PutInputs : putCard(input[1], input[2])
    /\ UNCHANGED hist
    /\ UNCHANGED notGrid

call_setActivated ==
    /\ \E coordinate \in GridPosition : setActivated(coordinate)
    /\ UNCHANGED hist
    /\ UNCHANGED notGrid

call_setActivationPattern ==
    /\ \E pattern \in PatternInputs : setActivationPattern(pattern)
    /\ UNCHANGED hist
    /\ UNCHANGED notGrid

call_endTurn ==
    /\ endTurn
    /\ UNCHANGED hist
    /\ UNCHANGED notGrid

Next ==
    \/ call_putCard
    \/ call_setActivated
    \/ call_setActivationPattern
    \/ call_endTurn

Spec == Init /\ [][Next]_vars

\* The same calls with the history recorded: `consumed` collects the positions of
\* the successful setActivated calls and `turnEnded` is set by endTurn; a
\* successful putCard resets both and endTurn resets `consumed`.
hist_putCard ==
    \E input \in PutInputs :
        /\ UNCHANGED notGrid
        /\ putCard(input[1], input[2])
        /\ IF canPutCard(input[1])
           THEN consumed' = {} /\ turnEnded' = FALSE
           ELSE UNCHANGED hist

hist_setActivated ==
    \E coordinate \in GridPosition :
        /\ UNCHANGED notGrid
        /\ setActivated(coordinate)
        /\ consumed' = IF canBeActivated(coordinate)
                       THEN consumed \cup {coordinate} ELSE consumed
        /\ UNCHANGED turnEnded

hist_setActivationPattern ==
    /\ \E pattern \in PatternInputs : setActivationPattern(pattern)
    /\ UNCHANGED hist
    /\ UNCHANGED notGrid

hist_endTurn ==
    /\ UNCHANGED notGrid
    /\ endTurn
    /\ consumed' = {}
    /\ turnEnded' = TRUE

HistNext ==
    \/ hist_putCard
    \/ hist_setActivated
    \/ hist_setActivationPattern
    \/ hist_endTurn

HistSpec == Init /\ [][HistNext]_vars

\* ------------------------------------------------------------------ claims
Occupied == DOMAIN cells

\* The span (max - min + 1) of a non-empty set of integers.
Span(S) == Max(S) - Min(S) + 1

\* C1: in every reachable state the occupied positions span at most 3 columns
\* (max x - min x + 1 <= 3) and at most 3 rows (max y - min y + 1 <= 3).
C1_BoundingBox ==
    Occupied # {} =>
        /\ Span({ X(pos) : pos \in Occupied }) <= 3
        /\ Span({ Y(pos) : pos \in Occupied }) <= 3

\* A putCard has just failed on a grid that already spans 3 x 3.
C1_Witness ==
    /\ raised = PutError
    /\ Occupied # {}
    /\ Span({ X(pos) : pos \in Occupied }) = 3
    /\ Span({ Y(pos) : pos \in Occupied }) = 3

\* C2: right after a successful putCard(P, card), canBeActivated(Q) is true for
\* exactly the positions Q that were occupied before the call and share P's x
\* or P's y (so it is false for P and after the first card of an empty grid).
C2_ActivationPropagation ==
    [][\A input \in PutInputs :
          (putCard(input[1], input[2]) /\ canPutCard(input[1])) =>
              \A Q \in GridPosition :
                  canBeActivated(Q)' <=>
                      /\ Q \in Occupied
                      /\ (X(Q) = X(input[1]) \/ Y(Q) = Y(input[1]))]_vars

\* C3: setActivated(pos) succeeds exactly when canBeActivated(pos) is true; after
\* a success canBeActivated(pos) is false, and a setActivated(pos) on a position
\* already activated since the last successful putCard or endTurn fails.
C3_ActivationConsumption ==
    [][\A pos \in GridPosition :
          setActivated(pos) =>
              /\ (raised' = NoError) <=> canBeActivated(pos)
              /\ (raised' = NoError) => ~canBeActivated(pos)'
              /\ pos \in consumed => raised' # NoError]_vars

\* C4: endTurn leaves the placed cards and the activation pattern as they were,
\* and from endTurn until the next successful putCard canBeActivated(pos) is
\* false for every position.
C4_EndTurnClears ==
    [][/\ endTurn => /\ cells' = cells
                     /\ activation_pattern' = activation_pattern
       /\ turnEnded' => \A pos \in GridPosition : ~canBeActivated(pos)']_vars

\* C5: putCard(pos, card) raises whenever canPutCard(pos) is false (a putCard
\* that does not raise was on a position where canPutCard was true), and a call
\* that raised left the placed cards (the mapping getCard reads), the activated
\* set and the activation pattern as before the call.
C5_FailedPutChangesNothing ==
    [][/\ raised' = PutError =>
            /\ cells' = cells
            /\ activated_this_turn' = activated_this_turn
            /\ activation_pattern' = activation_pattern
       /\ raised' = NoError =>
            \A input \in PutInputs :
                putCard(input[1], input[2]) => canPutCard(input[1])]_vars

\* A putCard has just failed on a position holding a different card, with a
\* pattern stored and a position activated.
C5_Witness ==
    /\ raised = PutError
    /\ \E pos \in StartPositions : pos \in Occupied /\ cells[pos] # 1
    /\ activation_pattern # << >>
    /\ activated_this_turn # {}

\* The positions pos may join: every two positions of the occupied ones plus pos
\* are less than 3 apart in x and in y.
FitsWith(pos) ==
    \A a, b \in Occupied \cup {pos} : X(a) - X(b) < 3 /\ Y(a) - Y(b) < 3

\* C6: canPutCard(pos) is false if pos is occupied, true if the grid is empty,
\* and otherwise true exactly when the occupied positions plus pos span at most
\* 3 in x and in y.
C6_CanPutCard ==
    \A pos \in GridPosition :
        /\ pos \in Occupied => ~canPutCard(pos)
        /\ Occupied = {} => canPutCard(pos)
        /\ (pos \notin Occupied /\ Occupied # {}) => (canPutCard(pos) <=> FitsWith(pos))

\* A grid with a free position that may be filled and a free one that may not.
C6_Witness ==
    /\ Occupied # {}
    /\ \E p, q \in GridPosition \ Occupied : canPutCard(p) /\ ~canPutCard(q)

\* C7: setActivationPattern fails unless exactly 9 positions are occupied, and a
\* failed call leaves the pattern, the cards and the activated set unchanged.
C7_PatternNeedsFullGrid ==
    [][\A pattern \in PatternInputs :
          (setActivationPattern(pattern) /\ Cardinality(Occupied) # 9) =>
              /\ raised' # NoError
              /\ UNCHANGED gridState]_vars

\* C8: on a full grid setActivationPattern(localPattern) stores, in order, each
\* local position translated by (min x, min y) of the occupied positions, and
\* every stored position is occupied.
C8_PatternTranslated ==
    [][\A pattern \in PatternInputs :
          (setActivationPattern(pattern) /\ Cardinality(Occupied) = 9) =>
              LET minx == Min({ X(pos) : pos \in Occupied })
                  miny == Min({ Y(pos) : pos \in Occupied })
              IN  /\ activation_pattern' =
                         [i \in DOMAIN pattern |->
                             <<X(pattern[i]) + minx, Y(pattern[i]) + miny>>]
                  /\ Range(activation_pattern') \subseteq Occupied]_vars

\* C9 as stated: once a pattern is stored, no later operation changes it.
C9_PatternSetOnce ==
    [][activation_pattern # << >> => activation_pattern' = activation_pattern]_vars

\* C9 amended: putCard, setActivated and endTurn never change the stored
\* pattern; only a setActivationPattern call does.
C9_OnlySetPatternChangesPattern ==
    [][activation_pattern' # activation_pattern =>
          ~(\/ \E input \in PutInputs : putCard(input[1], input[2])
            \/ \E pos \in GridPosition : setActivated(pos)
            \/ endTurn)]_vars

\* A pattern is stored and afterwards a position was activated and a putCard
\* failed.
C9_Witness ==
    /\ activation_pattern # << >>
    /\ activated_this_turn # {}
    /\ raised = PutError

\* C10: a card, once placed, stays: every step keeps each occupied position
\* occupied by the same card, and a successful putCard(pos, card) changes
\* getCard only at pos, where it returns card.
C10_CardsPermanent ==
    [][cells' # cells =>
          /\ \A pos \in Occupied : getCard(pos)' = getCard(pos)
          /\ \A input \in PutInputs :
                (putCard(input[1], input[2]) /\ raised' = NoError) =>
                    /\ getCard(input[1])' = input[2]
                    /\ \A pos \in GridPosition \ {input[1]} :
                           getCard(pos)' = getCard(pos)]_vars

\* A full grid holding two different cards, after a failed putCard.
C10_Witness ==
    /\ Cardinality(Occupied) = 9
    /\ \E p, q \in Occupied : cells[p] # cells[q]
    /\ raised = PutError

(***************************************************************************)
(* Part 2: Pile                                                            *)
(***************************************************************************)

\* The most cards a Pile is constructed with.
MaxPileCards == 6

\* The size of the visible window (the 4 of _fill_visible, getCard, takeCard).
WINDOW == 4

\* The indexes offered to getCard and takeCard: all slots, 0, and one index
\* out of range on each side.
Indices == -1 .. (WINDOW + 1)

FillError == "Not enough cards in deck"
IndexError == "Cannot get card at that position"
\* list index out of range, raised by visible_cards[index-1]
ListIndexError == "IndexError"

Last(s) == s[Len(s)]
Front(s) == SubSeq(s, 1, Len(s) - 1)
\* list.pop(i-1): the list without its i-th element
RemoveAt(s, i) == SubSeq(s, 1, i - 1) \o SubSeq(s, i + 1, Len(s))

\* What a shuffler may return for a deck: any arrangement of the same cards.
Shuffles(deck) ==
    { s \in [1 .. Len(deck) -> Range(deck)] : Range(s) = Range(deck) }

\* Constructor arguments: `k` visible cards and `n - k` hidden cards, all
\* distinct, the window holding at most WINDOW cards.
PileInputs ==
    UNION { { <<[i \in 1 .. k |-> i], [i \in 1 .. (n - k) |-> k + i]>> :
                n \in k .. MaxPileCards } : k \in 0 .. WINDOW }

\* ------------------------------------------------------------- operations
\* The three stacks as one value.
Stacks(v, h, d) == [visible |-> v, hidden |-> h, discarded |-> d]

stacks == Stacks(visible_cards, hidden_cards, discarded_cards)

\* _restore_hidden without discarded_cards.clear().
restore_hidden_keepDiscard(h, d, answer) == [hidden |-> h \o answer, discarded |-> d]

\* Pile._restore_hidden: the hidden stack is extended with what the shuffler
\* returns for the discard stack, and the discard stack is cleared.  `answer`
\* is the shuffler's return value.
restore_hidden(h, d, answer) == [hidden |-> h \o answer, discarded |-> << >>]

\* Pile._fill_visible, one loop iteration per unfolding.  The result holds the
\* three stacks, whether ValueError('Not enough cards in deck') was raised, and
\* the shuffler's invocations appended to `calls`.  The shuffler answers at
\* most once in a refill: after its answer the discard stack is empty, and the
\* next exhaustion of the hidden stack raises.
RECURSIVE fill_visible(_, _, _, _, _)
fill_visible(v, h, d, answer, calls) ==
    IF ~(Len(v) < WINDOW)
    THEN [stacks |-> Stacks(v, h, d), raised |-> FALSE, calls |-> calls]
    ELSE IF Len(h) = 0
         THEN IF Len(d) = 0
              THEN [stacks |-> Stacks(v, h, d), raised |-> TRUE, calls |-> calls]
              ELSE LET r == restore_hidden(h, d, answer)
                   IN  fill_visible(Append(v, Last(r.hidden)), Front(r.hidden),
                                    r.discarded, answer,
                                    Append(calls, [deck |-> d, hidden |-> h]))
         ELSE fill_visible(Append(v, Last(h)), Front(h), d, answer, calls)

\* Pile.getCard: None outside 1..4, else visible_cards[index-1], which raises
\* IndexError when the window holds fewer than `index` cards.
Pile_getCard(index) ==
    IF index < 1 \/ index > WINDOW
    THEN None
    ELSE IF index <= Len(visible_cards)
         THEN visible_cards[index]
         ELSE ListIndexError

\* The state a call leaves behind: the stacks, the outcome, the returned card
\* and the shuffler's invocations.
PileResult(st, outcome, card, calls) ==
    /\ visible_cards' = st.visible
    /\ hidden_cards' = st.hidden
    /\ discarded_cards' = st.discarded
    /\ pile_raised' = outcome
    /\ returned' = card
    /\ shuffler_calls' = calls
    /\ UNCHANGED pile_phase

\* __init__ without the call of _fill_visible.
Pile_init_noFill(visible, hidden) ==
    /\ pile_phase = "new"
    /\ pile_phase' = "live"
    /\ visible_cards' = visible
    /\ hidden_cards' = hidden
    /\ discarded_cards' = << >>
    /\ pile_raised' = NoError
    /\ shuffler_calls' = << >>
    /\ UNCHANGED returned

\* Pile.__init__: the shuffler is stored, the two lists are copied, the discard
\* stack starts empty, and the window is filled.  When the fill raises, no Pile
\* exists.
Pile_init(visible, hidden) ==
    /\ pile_phase = "new"
    /\ LET f == fill_visible(visible, hidden, << >>, << >>, << >>)
       IN  IF f.raised
           THEN /\ pile_phase' = "failed"
                /\ pile_raised' = FillError
                /\ shuffler_calls' = f.calls
                /\ UNCHANGED <<visible_cards, hidden_cards, discarded_cards, returned>>
           ELSE /\ pile_phase' = "live"
                /\ visible_cards' = f.stacks.visible
                /\ hidden_cards' = f.stacks.hidden
                /\ discarded_cards' = f.stacks.discarded
                /\ pile_raised' = NoError
                /\ shuffler_calls' = f.calls
                /\ UNCHANGED returned

\* takeCard without the refill after the pop.
Pile_takeCard_noRefill(index) ==
    /\ pile_phase = "live"
    /\ IF index < 1 \/ index > WINDOW
       THEN PileResult(stacks, IndexError, None, << >>)
       ELSE \E a1 \in Shuffles(discarded_cards) :
              LET f1 == fill_visible(visible_cards, hidden_cards, discarded_cards,
                                     a1, << >>)
                  v1 == f1.stacks.visible
              IN  IF f1.raised
                  THEN PileResult(f1.stacks, FillError, None, f1.calls)
                  ELSE PileResult(Stacks(RemoveAt(v1, index), f1.stacks.hidden, f1.stacks.discarded),
                                 NoError, v1[index], f1.calls)

\* takeCard popping the last card of the window whatever the index.
Pile_takeCard_popLast(index) ==
    /\ pile_phase = "live"
    /\ IF index < 1 \/ index > WINDOW
       THEN PileResult(stacks, IndexError, None, << >>)
       ELSE \E a1 \in Shuffles(discarded_cards) :
              LET f1 == fill_visible(visible_cards, hidden_cards, discarded_cards,
                                     a1, << >>)
                  v1 == f1.stacks.visible
              IN  IF f1.raised
                  THEN PileResult(f1.stacks, FillError, None, f1.calls)
                  ELSE \E a2 \in Shuffles(f1.stacks.discarded) :
                          LET f2 == fill_visible(RemoveAt(v1, Len(v1)), f1.stacks.hidden,
                                                 f1.stacks.discarded, a2, f1.calls)
                          IN  IF f2.raised
                              THEN PileResult(f2.stacks, FillError, None, f2.calls)
                              ELSE PileResult(f2.stacks, NoError, v1[Len(v1)], f2.calls)

\* takeCard checking only the upper end of the range: list.pop then counts a
\* negative position from the end of the list.
Pile_takeCard_noLowerCheck(index) ==
    /\ pile_phase = "live"
    /\ IF index > WINDOW
       THEN PileResult(stacks, IndexError, None, << >>)
       ELSE \E a1 \in Shuffles(discarded_cards) :
              LET f1 == fill_visible(visible_cards, hidden_cards, discarded_cards,
                                     a1, << >>)
                  v1 == f1.stacks.visible
              IN  IF f1.raised
                  THEN PileResult(f1.stacks, FillError, None, f1.calls)
                  ELSE \E a2 \in Shuffles(f1.stacks.discarded) :
                          LET f2 == fill_visible(RemoveAt(v1, (IF index >= 1 THEN index ELSE Len(v1) + index)), f1.stacks.hidden,
                                                 f1.stacks.discarded, a2, f1.calls)
                          IN  IF f2.raised
                              THEN PileResult(f2.stacks, FillError, None, f2.calls)
                              ELSE PileResult(f2.stacks, NoError, v1[(IF index >= 1 THEN index ELSE Len(v1) + index)], f2.calls)

\* Pile.takeCard: an index outside 1..4 raises; otherwise the window is filled,
\* the card in the slot is popped, the window is filled again and the card is
\* returned.  A fill that raises leaves what it did so far.
Pile_takeCard(index) ==
    /\ pile_phase = "live"
    /\ IF index < 1 \/ index > WINDOW
       THEN PileResult(stacks, IndexError, None, << >>)
       ELSE \E a1 \in Shuffles(discarded_cards) :
              LET f1 == fill_visible(visible_cards, hidden_cards, discarded_cards,
                                     a1, << >>)
                  v1 == f1.stacks.visible
              IN  IF f1.raised
                  THEN PileResult(f1.stacks, FillError, None, f1.calls)
                  ELSE \E a2 \in Shuffles(f1.stacks.discarded) :
                          LET f2 == fill_visible(RemoveAt(v1, index), f1.stacks.hidden,
                                                 f1.stacks.discarded, a2, f1.calls)
                          IN  IF f2.raised
                              THEN PileResult(f2.stacks, FillError, None, f2.calls)
                              ELSE PileResult(f2.stacks, NoError, v1[index], f2.calls)

\* removeLastCard discarding the first card of the window.
Pile_removeLastCard_popFirst ==
    /\ pile_phase = "live"
    /\ \E a1 \in Shuffles(discarded_cards) :
         LET f1 == fill_visible(visible_cards, hidden_cards, discarded_cards,
                                a1, << >>)
             v1 == f1.stacks.visible
         IN  IF f1.raised
             THEN PileResult(f1.stacks, FillError, None, f1.calls)
             ELSE LET d1 == Append(f1.stacks.discarded, v1[1])
                  IN  \E a2 \in Shuffles(d1) :
                        LET f2 == fill_visible(RemoveAt(v1, 1), f1.stacks.hidden,
                                               d1, a2, f1.calls)
                        IN  IF f2.raised
                            THEN PileResult(f2.stacks, FillError, None, f2.calls)
                            ELSE PileResult(f2.stacks, NoError, None, f2.calls)

\* Pile.removeLastCard: the window is filled, its last card is popped onto the
\* discard stack, and the window is filled again.
Pile_removeLastCard ==
    /\ pile_phase = "live"
    /\ \E a1 \in Shuffles(discarded_cards) :
         LET f1 == fill_visible(visible_cards, hidden_cards, discarded_cards,
                                a1, << >>)
             v1 == f1.stacks.visible
         IN  IF f1.raised
             THEN PileResult(f1.stacks, FillError, None, f1.calls)
             ELSE LET d1 == Append(f1.stacks.discarded, v1[Len(v1)])
                  IN  \E a2 \in Shuffles(d1) :
                        LET f2 == fill_visible(RemoveAt(v1, Len(v1)), f1.stacks.hidden,
                                               d1, a2, f1.calls)
                        IN  IF f2.raised
                            THEN PileResult(f2.stacks, FillError, None, f2.calls)
                            ELSE PileResult(f2.stacks, NoError, None, f2.calls)

\* ---------------------------------------------------------- specification
new_Pile ==
    /\ \E input \in PileInputs : Pile_init(input[1], input[2])
    /\ UNCHANGED notPile

call_takeCard ==
    /\ \E index \in Indices : Pile_takeCard(index)
    /\ UNCHANGED notPile

call_removeLastCard ==
    /\ Pile_removeLastCard
    /\ UNCHANGED notPile

PileNext ==
    \/ new_Pile
    \/ call_takeCard
    \/ call_removeLastCard

PileSpec == Init /\ [][PileNext]_vars

(***************************************************************************)
(* Claims about the Pile                                                   *)
(***************************************************************************)

DiscardAtRefill ==
    IF pile_raised' = NoError /\ returned' = None
    THEN Append(discarded_cards, Last(visible_cards))
    ELSE discarded_cards

\* The cards the refills of a takeCard or removeLastCard pull: those the window
\* lacks, and one for the card the call removes.
CardsNeeded == WINDOW - Len(visible_cards) + 1

\* C12: in every refill the shuffler is invoked exactly when the hidden stack
\* runs empty while the window still lacks a card and the discard stack is
\* non-empty; it receives the discard stack's contents in discard order, is
\* never invoked while the hidden stack has cards, and after the reshuffle the
\* discard stack is empty and its former cards are all hidden or visible.
C12_Witness ==
    /\ shuffler_calls # << >>
    /\ Len(shuffler_calls[1].deck) >= 2
    /\ returned # None

C12_Reshuffle ==
    [][ /\ \A i \in DOMAIN shuffler_calls' :
             /\ shuffler_calls'[i].hidden = << >>
             /\ shuffler_calls'[i].deck # << >>
             /\ shuffler_calls'[i].deck = DiscardAtRefill
             /\ discarded_cards' = << >>
             /\ Range(shuffler_calls'[i].deck)
                    \subseteq Range(hidden_cards') \cup Range(visible_cards')
        /\ (pile_phase = "new" /\ pile_phase' # "new") => shuffler_calls' = << >>
        /\ (pile_phase = "live" /\ pile_raised' # IndexError) =>
             ((shuffler_calls' # << >>) <=>
                  /\ Len(hidden_cards) < CardsNeeded
                  /\ DiscardAtRefill # << >>)
      ]_vars

\* C13: takeCard(i), 1 <= i <= 4, on a full window returns exactly the card
\* getCard(i) showed just before; afterwards that card is in none of the three
\* stacks and the discard stack has gained no card.
C13_TakeReturnsShownCard ==
    [][ (pile_phase = "live" /\ pile_raised' = NoError /\ returned' # None) =>
          \A index \in 1 .. WINDOW :
             (Len(visible_cards) = WINDOW /\ Pile_takeCard(index)) =>
                /\ returned' = Pile_getCard(index)
                /\ returned' \notin Range(visible_cards') \cup Range(hidden_cards')
                                         \cup Range(discarded_cards')
                /\ Range(discarded_cards') \subseteq Range(discarded_cards)
      ]_vars

\* A card was taken from a pile that keeps cards on its discard stack.
C13_Witness ==
    /\ pile_phase = "live"
    /\ pile_raised = NoError
    /\ returned # None
    /\ discarded_cards # << >>

\* C14: takeCard(0) on a pile whose hidden stack is non-empty removes and
\* returns the top (last) hidden card and leaves the visible window and the
\* discard stack as they were.
C14_TakeZeroTakesHidden ==
    [][ (pile_phase = "live" /\ hidden_cards # << >> /\ Pile_takeCard(0)) =>
          /\ pile_raised' = NoError
          /\ returned' = Last(hidden_cards)
          /\ hidden_cards' = Front(hidden_cards)
          /\ visible_cards' = visible_cards
          /\ discarded_cards' = discarded_cards
      ]_vars

\* C15: takeCard(index) with index < 0 or index > 4 fails and leaves the
\* visible, hidden and discard stacks exactly as they were.
C15_BadIndexFails ==
    [][ pile_phase = "live" =>
          \A index \in Indices :
             ((index < 0 \/ index > WINDOW) /\ Pile_takeCard(index)) =>
                /\ pile_raised' = IndexError
                /\ stacks' = stacks
      ]_vars

\* takeCard was refused for its index on a pile with cards on all three stacks.
C15_Witness ==
    /\ pile_phase = "live"
    /\ pile_raised = IndexError
    /\ hidden_cards # << >>
    /\ discarded_cards # << >>

\* C16: in every state of a pile reachable by takeCard and removeLastCard
\* calls, successful or failing, getCard(index) returns None for every index
\* outside 1..4 and the card in that visible slot for 1..4, and never fails.
\* (getCard has no assignment: it is an expression of the state.)
C16_GetCardTotal ==
    pile_phase = "live" =>
       \A index \in Indices :
          IF index < 1 \/ index > WINDOW
          THEN Pile_getCard(index) = None
          ELSE /\ index <= Len(visible_cards)
               /\ Pile_getCard(index) = visible_cards[index]

\* C17 as stated: removeLastCard on a full window moves exactly the card in
\* visible slot 4 onto the top (end) of the discard stack and refills the
\* window to 4; apart from that card and the card pulled in by the refill no
\* card changes its stack.
C17_RemoveLastMovesSlotFour ==
    [][ (pile_phase = "live" /\ Len(visible_cards) = WINDOW /\ Pile_removeLastCard) =>
          /\ discarded_cards' = Append(discarded_cards, visible_cards[WINDOW])
          /\ Len(visible_cards') = WINDOW
          /\ Range(visible_cards) \ {visible_cards[WINDOW]} \subseteq Range(visible_cards')
          /\ Range(hidden_cards') \subseteq Range(hidden_cards)
      ]_vars

\* C17, amended: removeLastCard on a full window of a pile whose hidden stack
\* is non-empty moves exactly the card in visible slot 4 onto the top of the
\* discard stack and pulls the top hidden card into the window; no other card
\* changes its stack.  With an empty hidden stack the refill reshuffles: the
\* discard stack, the removed card included, is emptied into the hidden stack
\* and the window.
C17_RemoveLastWithoutReshuffle ==
    [][ (pile_phase = "live" /\ Len(visible_cards) = WINDOW /\ Pile_removeLastCard) =>
          IF hidden_cards # << >>
          THEN /\ discarded_cards' = Append(discarded_cards, visible_cards[WINDOW])
               /\ hidden_cards' = Front(hidden_cards)
               /\ Len(visible_cards') = WINDOW
               /\ Range(visible_cards') =
                     (Range(visible_cards) \ {visible_cards[WINDOW]})
                        \cup {Last(hidden_cards)}
               /\ shuffler_calls' = << >>
          ELSE /\ discarded_cards' = << >>
               /\ Len(visible_cards') = WINDOW
               /\ Range(visible_cards) \ {visible_cards[WINDOW]} \subseteq Range(visible_cards')
               /\ Range(hidden_cards') \cup Range(visible_cards') =
                     Range(visible_cards) \cup Range(discarded_cards)
      ]_vars

\* A removeLastCard has put a second card on the discard stack (the hidden
\* stack had a card for the refill, or the discard stack would be empty).
C17_Witness ==
    /\ pile_phase = "live"
    /\ pile_raised = NoError
    /\ returned = None
    /\ Len(discarded_cards) >= 2

\* C18: a takeCard(i), 1 <= i <= 4, that fails because the window cannot be
\* refilled (hidden and discard stack both empty) leaves the pile exactly as it
\* was: four visible cards in their order, the requested card still there.
C18_FailedTakeChangesNothing ==
    [][ (pile_phase = "live" /\ pile_raised' = FillError) =>
          \A index \in 1 .. WINDOW :
             (hidden_cards = << >> /\ discarded_cards = << >> /\ Pile_takeCard(index)) =>
                /\ stacks' = stacks
                /\ Len(visible_cards') = WINDOW
      ]_vars

\* C19: constructing a Pile from fewer than 4 cards (visible and hidden
\* together) fails; from at least 4 cards it succeeds and the shuffler is not
\* invoked.
C19_Construction ==
    [][ pile_phase = "new" =>
          \A input \in PileInputs :
             Pile_init(input[1], input[2]) =>
                IF Len(input[1]) + Len(input[2]) < WINDOW
                THEN /\ pile_phase' = "failed"
                     /\ pile_raised' = FillError
                ELSE /\ pile_phase' = "live"
                     /\ pile_raised' = NoError
                     /\ shuffler_calls' = << >>
      ]_vars

\* A construction has failed.
C19_Witness ==
    /\ pile_phase = "failed"
    /\ pile_raised = FillError

(***************************************************************************)
(* Part 3: RandomShuffler                                                  *)
(*                                                                         *)
(* Two RandomShuffler instances are built with the same seed argument, at  *)
(* wall-clock times of their own, and then shuffle the same decks in the   *)
(* same order.  random.Random is a deterministic generator: its state is a *)
(* function of the seed and of the numbers drawn so far.  The model keeps  *)
(* that and replaces the generator's arithmetic by a small linear          *)
(* congruential one.                                                       *)
(***************************************************************************)

\* The largest seed argument and the latest wall-clock second.
MaxSeed == 2
MaxClock == 3

\* Optional[int]: << >> is None, <<s>> the integer s.
SeedArgs == { << >> } \cup { <<s>> : s \in -1 .. MaxSeed }
Clock == 1 .. MaxClock
ShuffleDecks == { <<1, 2>>, <<1, 2, 3>> }
Instances == 1 .. 2

\* Python's truth value of an Optional[int]: None and 0 are false.
Truthy(seed) == seed # << >> /\ seed[1] # 0

\* The generator: random.Random(seed) and one draw.
Random(seed) == seed % 8
RngNext(x) == (5 * x + 3) % 8
\* _randbelow(n) on the generator state after the draw
RandBelow(x, n) == RngNext(x) % n

\* RandomShuffler.__init__ at wall-clock second `now`: the generator's state.
RandomShuffler_init(seed, now) ==
    IF ~Truthy(seed) THEN Random(now) ELSE Random(seed[1])

Swap(s, i, j) == [s EXCEPT ![i] = s[j], ![j] = s[i]]

\* random.shuffle: for i from the last position down to the second, exchange
\* the card at i with the card at a drawn position of 1..i.  The result is the
\* shuffled list and the generator's new state.
RECURSIVE rng_shuffle(_, _, _)
rng_shuffle(x, deck, i) ==
    IF i < 2
    THEN [deck |-> deck, rng |-> x]
    ELSE rng_shuffle(RngNext(x), Swap(deck, i, RandBelow(x, i) + 1), i - 1)

\* RandomShuffler.shuffle: a copy of the deck is shuffled and returned.
RandomShuffler_shuffle(x, deck) == rng_shuffle(x, deck, Len(deck))

new_RandomShufflers ==
    /\ rng = << >>
    /\ \E seed \in SeedArgs : \E t1, t2 \in Clock :
          /\ t1 <= t2
          /\ seed_arg' = seed
          /\ rng' = <<RandomShuffler_init(seed, t1), RandomShuffler_init(seed, t2)>>
          /\ output' = << << >>, << >> >>
    /\ UNCHANGED notShuffler

call_shuffle ==
    /\ rng # << >>
    /\ \E deck \in ShuffleDecks :
          /\ rng' = [k \in Instances |-> RandomShuffler_shuffle(rng[k], deck).rng]
          /\ output' = [k \in Instances |-> RandomShuffler_shuffle(rng[k], deck).deck]
    /\ UNCHANGED seed_arg
    /\ UNCHANGED notShuffler

ShufflerNext ==
    \/ new_RandomShufflers
    \/ call_shuffle

ShufflerSpec == Init /\ [][ShufflerNext]_vars

\* C20: two RandomShuffler instances built with the same integer seed, 0
\* included, return the same permutations for the same shuffle inputs,
\* whatever the wall-clock time of their construction.
C20_SeededDeterministic ==
    (rng # << >> /\ seed_arg # << >>) => output[1] = output[2]

(***************************************************************************)
(* Part 4: SelectReward (src/terra_futura/select_reward.py)                *)
(*                                                                         *)
(* setReward receives the caller's options list; Python lists are objects, *)
(* so the model keeps the contents of the caller's list and of the list    *)
(* the SelectReward owns, and which of the two SelectReward.selection      *)
(* refers to.  The caller may change its list between the calls.           *)
(***************************************************************************)

\* The longest options list a caller builds.
MaxOptions == 2

Resources == { "YELLOW", "RED", "MONEY" }

RECURSIVE SeqsUpTo(_, _)
SeqsUpTo(S, n) ==
    IF n = 0 THEN { << >> }
    ELSE SeqsUpTo(S, n - 1) \cup { Append(q, x) : q \in SeqsUpTo(S, n - 1), x \in S }

OptionLists == SeqsUpTo(Resources, MaxOptions)

\* The players a reward is set for, and the cards placed in their grids:
\* player 1 holds card 1 at (0, 0), the grid of player 2 is empty.
RewardPlayers == 1 .. 2
PlayerGrid(p) == IF p = 1 THEN (<<0, 0>> :> 1) ELSE << >>

\* card is one of the cards placed in the player's grid
CardOnGrid(p, card) == \E pos \in DOMAIN PlayerGrid(p) : PlayerGrid(p)[pos] = card

RewardError == "Cannot select the reward"

\* SelectReward.selection: the contents of the list it refers to.
selection == lists[selection_ref]

\* setReward keeping a reference to the caller's list instead of a copy.
setReward_alias(p, card, reward) ==
    /\ reward_player' = p
    /\ reward_card' = card
    /\ selection_ref' = reward
    /\ UNCHANGED lists
    /\ reward_state' = "PENDING"
    /\ reward_raised' = NoError

\* SelectReward.setReward: the player, the card and a copy of the list `reward`
\* refers to are stored and the state becomes PENDING.  It has no check.
setReward(p, card, reward) ==
    /\ reward_player' = p
    /\ reward_card' = card
    /\ lists' = [lists EXCEPT !.own = lists[reward]]
    /\ selection_ref' = "own"
    /\ reward_state' = "PENDING"
    /\ reward_raised' = NoError

\* canSelectReward answering without looking at the state.
canSelectReward_anyState(resource) == resource \in Range(selection)

\* SelectReward.canSelectReward
canSelectReward(resource) ==
    IF reward_state # "PENDING" THEN FALSE ELSE resource \in Range(selection)

\* selectReward resetting the instance when it refuses.
selectReward_resetOnRefusal(resource) ==
    IF ~canSelectReward(resource)
    THEN /\ reward_raised' = RewardError
         /\ reward_state' = "IDLE"
         /\ UNCHANGED <<reward_player, reward_card, selection_ref, lists>>
    ELSE /\ lists' = [lists EXCEPT !.own = <<resource>>]
         /\ selection_ref' = "own"
         /\ reward_state' = "SELECTED"
         /\ reward_raised' = NoError
         /\ UNCHANGED <<reward_player, reward_card>>

\* selectReward leaving the state PENDING.
selectReward_staysPending(resource) ==
    IF ~canSelectReward(resource)
    THEN /\ reward_raised' = RewardError
         /\ UNCHANGED <<reward_player, reward_card, reward_state, selection_ref, lists>>
    ELSE /\ lists' = [lists EXCEPT !.own = <<resource>>]
         /\ selection_ref' = "own"
         /\ reward_raised' = NoError
         /\ UNCHANGED <<reward_player, reward_card, reward_state>>

\* SelectReward.selectReward
selectReward(resource) ==
    IF ~canSelectReward(resource)
    THEN /\ reward_raised' = RewardError
         /\ UNCHANGED <<reward_player, reward_card, reward_state, selection_ref, lists>>
    ELSE /\ lists' = [lists EXCEPT !.own = <<resource>>]
         /\ selection_ref' = "own"
         /\ reward_state' = "SELECTED"
         /\ reward_raised' = NoError
         /\ UNCHANGED <<reward_player, reward_card>>

\* The caller changes the contents of its options list.
caller_changes_options ==
    /\ \E new \in OptionLists \ { lists.caller } :
          lists' = [lists EXCEPT !.caller = new]
    /\ UNCHANGED <<reward_player, reward_card, reward_state, selection_ref, reward_raised>>
    /\ UNCHANGED notReward

call_setReward ==
    /\ \E p \in RewardPlayers, card \in Cards : setReward(p, card, "caller")
    /\ UNCHANGED notReward

call_selectReward ==
    /\ \E resource \in Resources : selectReward(resource)
    /\ UNCHANGED notReward

RewardNext ==
    \/ caller_changes_options
    \/ call_setReward
    \/ call_selectReward

RewardSpec == Init /\ [][RewardNext]_vars

(***************************************************************************)
(* Claims about SelectReward                                               *)
(***************************************************************************)

\* What a SelectReward holds: player, selection (its contents) and state.
rewardState == <<reward_player, selection, reward_state>>

\* This step is a setReward call.
IsSetReward == \E p \in RewardPlayers, card \in Cards : setReward(p, card, "caller")

\* C21 as stated: the state only moves IDLE -> PENDING -> SELECTED, never back
\* to IDLE, and SELECTED is terminal: after a selection no call changes the
\* state or the locked-in selection.
C21_SelectedIsTerminal ==
    [][ /\ reward_state = "IDLE" => (reward_player = None /\ selection = << >>)
        /\ reward_state' # reward_state =>
              <<reward_state, reward_state'>> \in
                  { <<"IDLE", "PENDING">>, <<"PENDING", "SELECTED">> }
        /\ reward_state = "SELECTED" => selection' = selection
      ]_vars

\* C21, amended: the initial state is IDLE with no player and an empty
\* selection; the state never returns to IDLE; it becomes PENDING only by
\* setReward and SELECTED only by a successful selectReward from PENDING; in
\* SELECTED no selectReward or canSelectReward changes state or selection,
\* only a setReward does (it starts a new reward: PENDING).
C21_OnlySetRewardLeavesSelected ==
    [][ /\ reward_state = "IDLE" => (reward_player = None /\ selection = << >>)
        /\ reward_state' # "IDLE" \/ reward_state = "IDLE"
        /\ reward_state' # reward_state =>
              \/ /\ reward_state' = "PENDING"
                 /\ IsSetReward
              \/ /\ <<reward_state, reward_state'>> = <<"PENDING", "SELECTED">>
                 /\ reward_raised' = NoError
                 /\ ~IsSetReward
        /\ (reward_state = "SELECTED" /\ ~IsSetReward) =>
              /\ reward_state' = "SELECTED"
              /\ selection' = selection
      ]_vars

\* A selection is locked in.
C21_Witness ==
    /\ reward_state = "SELECTED"
    /\ reward_raised = NoError
    /\ Len(selection) = 1

\* C22: setReward(player, card, options) fails unless card is placed in the
\* player's grid, and a failed setReward leaves player, selection and state
\* unchanged.
C22_SetRewardNeedsOwnedCard ==
    [][ \A p \in RewardPlayers, card \in Cards :
          (setReward(p, card, "caller") /\ ~CardOnGrid(p, card)) =>
             /\ reward_raised' # NoError
             /\ rewardState' = rewardState
      ]_vars

\* C23: a successful setReward(player, card, options) leaves the state PENDING,
\* the player recorded and selection equal to options in order, as a copy:
\* a later change of the caller's list does not change the selection.
C23_SetRewardStoresCopy ==
    [][ /\ \A p \in RewardPlayers, card \in Cards :
             (setReward(p, card, "caller") /\ reward_raised' = NoError) =>
                /\ reward_state' = "PENDING"
                /\ reward_player' = p
                /\ selection' = lists.caller
        /\ lists'.caller # lists.caller => selection' = selection
      ]_vars

\* A reward is pending whose options the caller has changed since.
C23_Witness ==
    /\ reward_state = "PENDING"
    /\ Len(selection) = MaxOptions
    /\ lists.caller # selection

\* C24: in every reachable state and for every resource r, canSelectReward(r)
\* is true exactly when the state is PENDING and r is one of the offered
\* options; it is false for every r in IDLE and in SELECTED.  (canSelectReward
\* has no assignment: it is an expression of the state.)
C24_CanSelectReward ==
    \A r \in Resources :
       /\ canSelectReward(r) <=>
             (reward_state = "PENDING" /\ \E i \in 1 .. Len(selection) : selection[i] = r)
       /\ reward_state \in { "IDLE", "SELECTED" } => ~canSelectReward(r)

\* A locked-in selection: its resource is in `selection` and cannot be selected.
C24_Witness ==
    /\ reward_state = "SELECTED"
    /\ selection # << >>
    /\ lists.caller = << >>

\* C25: selectReward(r) fails whenever canSelectReward(r) is false and then
\* leaves player, selection and state unchanged; when it succeeds the selection
\* is exactly [r] and the state SELECTED, in which every selectReward fails.
C25_SelectReward ==
    [][ \A r \in Resources :
          selectReward(r) =>
             IF ~canSelectReward(r)
             THEN /\ reward_raised' = RewardError
                  /\ rewardState' = rewardState
             ELSE /\ reward_raised' = NoError
                  /\ selection' = <<r>>
                  /\ reward_state' = "SELECTED"
                  /\ \A r2 \in Resources : ~canSelectReward(r2)'
      ]_vars

\* A selectReward was refused after a selection.
C25_Witness ==
    /\ reward_state = "SELECTED"
    /\ reward_raised = RewardError

(***************************************************************************)
(* Part 5: Game (the turn state machine)                                   *)
(*                                                                         *)
(* A Game owns one Grid per player and draws from a Pile.  The Grids are   *)
(* values here (one per player), with the operations of grid.py on them;   *)
(* the Pile is the Pile of part 2.  The Game's own operations follow the   *)
(* description of the turn state machine.  The players' grids already hold *)
(* cards when the Game is constructed (as the starting card of             *)
(* test_game_basic_flow), so that a game is MaxPlacements turns per player *)
(* long.                                                                   *)
(***************************************************************************)

\* The cards a player still has to place when the Game is constructed.
MaxPlacements == 2

GamePlayers == 1 .. 2
NextPlayer(p) == (p % Cardinality(GamePlayers)) + 1

\* A full grid: 9 cards.
FullGrid == MAX_SIZE * MAX_SIZE

TakeStates == { "TakeCardNoCardDiscarded", "TakeCardCardDiscarded" }

\* The k-th position the players' grids are filled at before the game:
\* (0,0), (1,0), (2,0), (0,1), ... as in test_game_basic_flow.
FillOrder(k) == <<(k - 1) % MAX_SIZE, (k - 1) \div MAX_SIZE>>

\* The cards placed in the grid of player p before the game.
StartCells(p) ==
    [pos \in { FillOrder(k) : k \in 1 .. (FullGrid - MaxPlacements) } |->
        100 * p + (CHOOSE k \in 1 .. FullGrid : FillOrder(k) = pos)]

\* The destinations and positions the players name: the 3 x 3 block the grids
\* are filled in, and one position outside of it.
GamePositions == { FillOrder(k) : k \in 1 .. FullGrid } \cup { <<MAX_SIZE, 0>> }

\* The positions the players name in activateCard: one that holds a card from
\* the start, and one outside of the grid.
ActivatePositions == { FillOrder(1), <<MAX_SIZE, 0>> }

\* The indexes a player draws at, and the predefined patterns of a player.
GameIndices == { 0, 1 }
GamePatterns == << << <<0, 0>> >>, << <<0, 0>>, <<1, 0>> >> >>

\* ------------------------------------------------ Grid, as a value
\* A Grid with the given cells (Grid.__init__ and earlier putCard calls).
GridOf(cs) == [cells |-> cs, activation_pattern |-> << >>, activated_this_turn |-> {}]

\* Grid.canPutCard
grid_canPutCard(g, coordinate) ==
    IF coordinate \in DOMAIN g.cells THEN FALSE
    ELSE IF DOMAIN g.cells = {} THEN TRUE
    ELSE LET row == { X(pos) : pos \in DOMAIN g.cells } \cup { X(coordinate) }
             col == { Y(pos) : pos \in DOMAIN g.cells } \cup { Y(coordinate) }
             width == Max(row) - Min(row) + 1
             height == Max(col) - Min(col) + 1
         IN  IF height > MAX_SIZE \/ width > MAX_SIZE THEN FALSE ELSE TRUE

\* Grid.putCard, where it does not raise
grid_putCard(g, coordinate, card) ==
    [g EXCEPT !.cells = (coordinate :> card) @@ g.cells]

\* Grid.canBeActivated
grid_canBeActivated(g, coordinate) ==
    IF coordinate \notin DOMAIN g.cells THEN FALSE
    ELSE IF coordinate \notin Range(g.activation_pattern) THEN FALSE
    ELSE IF coordinate \in g.activated_this_turn THEN FALSE
    ELSE TRUE

\* Grid.setActivated, where it does not raise
grid_setActivated(g, coordinate) ==
    [g EXCEPT !.activated_this_turn = g.activated_this_turn \cup {coordinate}]

\* Grid.setActivationPattern
grid_setActivationPattern(g, pattern) ==
    [g EXCEPT !.activation_pattern = pattern, !.activated_this_turn = {}]

\* Grid.endTurn
grid_endTurn(g) == [g EXCEPT !.activated_this_turn = {}]

\* Every player's grid holds 9 cards.
AllGridsFull(gs) == \A p \in GamePlayers : Cardinality(DOMAIN gs[p].cells) = FullGrid

\* ------------------------------------------------------------------- Game
\* The Game's fields apart from the result of the last operation.
gameFields == <<game_state, current_player, turn_number, grids,
                patterns_selected, scorings_selected>>

\* An operation that is refused: it reports failure and changes nothing.
GameFails ==
    /\ game_ok' = FALSE
    /\ UNCHANGED gameFields
    /\ UNCHANGED pileVars

\* Game(players, piles, ...): the players' grids as they are, a Pile of `n`
\* cards, the first player on turn, turn 1, TakeCardNoCardDiscarded.
Game_init(n) ==
    /\ game_state = "none"
    /\ Pile_init([i \in 1 .. WINDOW |-> i], [i \in 1 .. (n - WINDOW) |-> WINDOW + i])
    /\ game_state' = "TakeCardNoCardDiscarded"
    /\ current_player' = 1
    /\ turn_number' = 1
    /\ grids' = [p \in GamePlayers |-> GridOf(StartCells(p))]
    /\ game_ok' = TRUE
    /\ UNCHANGED <<patterns_selected, scorings_selected>>

\* Game.onTurn
onTurn == current_player

\* Game.takeCard(playerId, source, cardIndex, destination): for the current
\* player in a take-card state; an illegal placement is refused with nothing
\* changed; otherwise the card is drawn from the Pile at source.index and put
\* at `destination`, and the state becomes ActivateCard.  When the Pile
\* raises, the operation reports failure.
Game_takeCard(playerId, index, destination) ==
    /\ game_state # "none"
    /\ IF playerId # current_player \/ game_state \notin TakeStates
       THEN GameFails
       ELSE IF ~grid_canPutCard(grids[playerId], destination)
       THEN GameFails
       ELSE /\ Pile_takeCard(index)
            /\ IF pile_raised' # NoError
               THEN /\ game_ok' = FALSE
                    /\ UNCHANGED gameFields
               ELSE /\ grids' = [grids EXCEPT
                                   ![playerId] = grid_putCard(@, destination, returned')]
                    /\ game_state' = "ActivateCard"
                    /\ game_ok' = TRUE
                    /\ UNCHANGED <<current_player, turn_number,
                                   patterns_selected, scorings_selected>>
\* discardLastCardFromDeck without the check of the player.
Game_discardLastCardFromDeck_anyPlayer(playerId) ==
    /\ game_state # "none"
    /\ IF game_state # "TakeCardNoCardDiscarded"
       THEN GameFails
       ELSE /\ Pile_removeLastCard
            /\ IF pile_raised' # NoError
               THEN /\ game_ok' = FALSE
                    /\ UNCHANGED gameFields
               ELSE /\ game_state' = "TakeCardCardDiscarded"
                    /\ game_ok' = TRUE
                    /\ UNCHANGED <<current_player, turn_number, grids,
                                   patterns_selected, scorings_selected>>

\* discardLastCardFromDeck accepted in both take-card states.
Game_discardLastCardFromDeck_anyTakeState(playerId) ==
    /\ game_state # "none"
    /\ IF playerId # current_player \/ game_state \notin TakeStates
       THEN GameFails
       ELSE /\ Pile_removeLastCard
            /\ IF pile_raised' # NoError
               THEN /\ game_ok' = FALSE
                    /\ UNCHANGED gameFields
               ELSE /\ game_state' = "TakeCardCardDiscarded"
                    /\ game_ok' = TRUE
                    /\ UNCHANGED <<current_player, turn_number, grids,
                                   patterns_selected, scorings_selected>>

\* Game.discardLastCardFromDeck(playerId, deck): for the current player in
\* TakeCardNoCardDiscarded; calls Pile.removeLastCard and the state becomes
\* TakeCardCardDiscarded.
Game_discardLastCardFromDeck(playerId) ==
    /\ game_state # "none"
    /\ IF playerId # current_player \/ game_state # "TakeCardNoCardDiscarded"
       THEN GameFails
       ELSE /\ Pile_removeLastCard
            /\ IF pile_raised' # NoError
               THEN /\ game_ok' = FALSE
                    /\ UNCHANGED gameFields
               ELSE /\ game_state' = "TakeCardCardDiscarded"
                    /\ game_ok' = TRUE
                    /\ UNCHANGED <<current_player, turn_number, grids,
                                   patterns_selected, scorings_selected>>

\* Game.activateCard(playerId, pos, ...): for the current player in
\* ActivateCard; requires Grid.canBeActivated(pos) and the card's check
\* (`legal`), then calls Grid.setActivated(pos).  The state stays ActivateCard.
Game_activateCard(playerId, pos, legal) ==
    /\ game_state # "none"
    /\ IF playerId # current_player \/ game_state # "ActivateCard"
       THEN GameFails
       ELSE IF ~grid_canBeActivated(grids[playerId], pos) \/ ~legal
       THEN GameFails
       ELSE /\ grids' = [grids EXCEPT ![playerId] = grid_setActivated(@, pos)]
            /\ game_ok' = TRUE
            /\ UNCHANGED <<game_state, current_player, turn_number,
                           patterns_selected, scorings_selected>>
            /\ UNCHANGED pileVars

\* turnFinished counting every turn as a new round.
Game_turnFinished_alwaysIncrements(playerId) ==
    /\ game_state # "none"
    /\ IF playerId # current_player \/ game_state # "ActivateCard"
       THEN GameFails
       ELSE LET gs == [grids EXCEPT ![playerId] = grid_endTurn(@)]
            IN  /\ grids' = gs
                /\ current_player' = NextPlayer(current_player)
                /\ turn_number' = IF TRUE
                                  THEN turn_number + 1 ELSE turn_number
                /\ game_state' = IF AllGridsFull(gs)
                                 THEN "SelectActivationPattern"
                                 ELSE "TakeCardNoCardDiscarded"
                /\ game_ok' = TRUE
                /\ UNCHANGED <<patterns_selected, scorings_selected>>
                /\ UNCHANGED pileVars

\* turnFinished ending the game when the grid of the player is full.
Game_turnFinished_ownGridFull(playerId) ==
    /\ game_state # "none"
    /\ IF playerId # current_player \/ game_state # "ActivateCard"
       THEN GameFails
       ELSE LET gs == [grids EXCEPT ![playerId] = grid_endTurn(@)]
            IN  /\ grids' = gs
                /\ current_player' = NextPlayer(current_player)
                /\ turn_number' = IF NextPlayer(current_player) = 1
                                  THEN turn_number + 1 ELSE turn_number
                /\ game_state' = IF Cardinality(DOMAIN gs[playerId].cells) = FullGrid
                                 THEN "SelectActivationPattern"
                                 ELSE "TakeCardNoCardDiscarded"
                /\ game_ok' = TRUE
                /\ UNCHANGED <<patterns_selected, scorings_selected>>
                /\ UNCHANGED pileVars

\* Game.turnFinished(playerId): for the current player in ActivateCard; calls
\* Grid.endTurn on the player's grid, passes the turn to the next player,
\* increments turnNumber when the turn wraps to the first player, and returns
\* to TakeCardNoCardDiscarded, or to SelectActivationPattern once every grid
\* holds 9 cards.
Game_turnFinished(playerId) ==
    /\ game_state # "none"
    /\ IF playerId # current_player \/ game_state # "ActivateCard"
       THEN GameFails
       ELSE LET gs == [grids EXCEPT ![playerId] = grid_endTurn(@)]
            IN  /\ grids' = gs
                /\ current_player' = NextPlayer(current_player)
                /\ turn_number' = IF NextPlayer(current_player) = 1
                                  THEN turn_number + 1 ELSE turn_number
                /\ game_state' = IF AllGridsFull(gs)
                                 THEN "SelectActivationPattern"
                                 ELSE "TakeCardNoCardDiscarded"
                /\ game_ok' = TRUE
                /\ UNCHANGED <<patterns_selected, scorings_selected>>
                /\ UNCHANGED pileVars

\* Game.selectActivationPattern(playerId, patternIndex): for the current player
\* in SelectActivationPattern; applies the pattern by Grid.setActivationPattern;
\* once all players have chosen the state becomes SelectScoringMethod.
Game_selectActivationPattern(playerId, patternIndex) ==
    /\ game_state # "none"
    /\ IF playerId # current_player \/ game_state # "SelectActivationPattern"
       THEN GameFails
       ELSE LET chosen == patterns_selected \cup {playerId}
            IN  /\ grids' = [grids EXCEPT ![playerId] =
                               grid_setActivationPattern(@, GamePatterns[patternIndex + 1])]
                /\ patterns_selected' = chosen
                /\ current_player' = NextPlayer(current_player)
                /\ game_state' = IF chosen = GamePlayers
                                 THEN "SelectScoringMethod"
                                 ELSE "SelectActivationPattern"
                /\ game_ok' = TRUE
                /\ UNCHANGED <<turn_number, scorings_selected>>
                /\ UNCHANGED pileVars

\* Game.selectScoring(playerId, methodIndex): for the current player in
\* SelectScoringMethod; the chosen method is calculated; once all players have
\* chosen the state becomes Finish.
Game_selectScoring(playerId, methodIndex) ==
    /\ game_state # "none"
    /\ IF playerId # current_player \/ game_state # "SelectScoringMethod"
       THEN GameFails
       ELSE LET chosen == scorings_selected \cup {playerId}
            IN  /\ scorings_selected' = chosen
                /\ current_player' = NextPlayer(current_player)
                /\ game_state' = IF chosen = GamePlayers
                                 THEN "Finish"
                                 ELSE "SelectScoringMethod"
                /\ game_ok' = TRUE
                /\ UNCHANGED <<turn_number, grids, patterns_selected>>
                /\ UNCHANGED pileVars

\* ---------------------------------------------------------- specification
new_Game ==
    /\ \E n \in WINDOW .. (WINDOW + 2 * MaxPlacements) : Game_init(n)
    /\ UNCHANGED notGame

game_takeCard ==
    /\ \E playerId \in GamePlayers, index \in GameIndices, destination \in GamePositions :
          Game_takeCard(playerId, index, destination)
    /\ UNCHANGED notGame

game_discardLastCardFromDeck ==
    /\ \E playerId \in GamePlayers : Game_discardLastCardFromDeck(playerId)
    /\ UNCHANGED notGame

game_activateCard ==
    /\ \E playerId \in GamePlayers, pos \in ActivatePositions, legal \in BOOLEAN :
          Game_activateCard(playerId, pos, legal)
    /\ UNCHANGED notGame

game_turnFinished ==
    /\ \E playerId \in GamePlayers : Game_turnFinished(playerId)
    /\ UNCHANGED notGame

game_selectActivationPattern ==
    /\ \E playerId \in GamePlayers, patternIndex \in 0 .. (Len(GamePatterns) - 1) :
          Game_selectActivationPattern(playerId, patternIndex)
    /\ UNCHANGED notGame

game_selectScoring ==
    /\ \E playerId \in GamePlayers, methodIndex \in 0 .. 1 :
          Game_selectScoring(playerId, methodIndex)
    /\ UNCHANGED notGame

GameNext ==
    \/ new_Game
    \/ game_takeCard
    \/ game_discardLastCardFromDeck
    \/ game_activateCard
    \/ game_turnFinished
    \/ game_selectActivationPattern
    \/ game_selectScoring

GameSpec == Init /\ [][GameNext]_vars

(***************************************************************************)
(* Claims about the Game                                                   *)
(***************************************************************************)

EndStates == { "SelectActivationPattern", "SelectScoringMethod", "Finish" }

LastPlayer == Cardinality(GamePlayers)

\* C26: a Game starts in TakeCardNoCardDiscarded with turnNumber 1 and the
\* first player on turn; each successful turnFinished(p) by the current player
\* calls endTurn on p's grid, passes the turn to the next player cyclically,
\* increments turnNumber by exactly 1 when and only when the turn wraps to the
\* first player, and, while some grid is not full, returns the state to
\* TakeCardNoCardDiscarded.
C26_TurnOrder ==
    [][ /\ (game_state = "none" /\ game_state' # "none") =>
              /\ game_state' = "TakeCardNoCardDiscarded"
              /\ turn_number' = 1
              /\ onTurn' = 1
        /\ (game_state = "ActivateCard" /\ game_ok') =>
              \A p \in GamePlayers :
                 Game_turnFinished(p) =>
                    /\ p = onTurn
                    /\ grids'[p].activated_this_turn = {}
                    /\ grids'[p].cells = grids[p].cells
                    /\ grids'[p].activation_pattern = grids[p].activation_pattern
                    /\ \A q \in GamePlayers \ {p} : grids'[q] = grids[q]
                    /\ onTurn' = IF p = LastPlayer THEN 1 ELSE p + 1
                    /\ turn_number' = IF onTurn' = 1 THEN turn_number + 1 ELSE turn_number
                    /\ ~AllGridsFull(grids') => game_state' = "TakeCardNoCardDiscarded"
        /\ (game_state # "none" /\ turn_number' # turn_number) =>
              /\ turn_number' = turn_number + 1
              /\ onTurn = LastPlayer
              /\ onTurn' = 1
              /\ \E p \in GamePlayers : Game_turnFinished(p)
      ]_vars

\* The second round has begun.
C26_Witness ==
    /\ game_state = "TakeCardNoCardDiscarded"
    /\ turn_number = 2
    /\ onTurn = 1

\* C27: a Game operation called with a playerId other than onTurn(), or in a
\* turn state in which it is not valid, fails and leaves the turn state, the
\* current player, turnNumber, every grid and the pile unchanged.  (Stated for
\* the steps that return success or change something: none of them is such
\* a call.)
C27_OnlyTheCurrentPlayerActs ==
    [][ (game_state # "none" /\ (game_ok' \/ gameFields' # gameFields \/ stacks' # stacks)) =>
          /\ \A playerId \in GamePlayers :
                /\ \A index \in GameIndices, destination \in GamePositions :
                      Game_takeCard(playerId, index, destination) =>
                         (playerId = onTurn /\ game_state \in TakeStates)
                /\ Game_discardLastCardFromDeck(playerId) =>
                      (playerId = onTurn /\ game_state = "TakeCardNoCardDiscarded")
                /\ \A pos \in ActivatePositions, legal \in BOOLEAN :
                      Game_activateCard(playerId, pos, legal) =>
                         (playerId = onTurn /\ game_state = "ActivateCard")
                /\ Game_turnFinished(playerId) =>
                      (playerId = onTurn /\ game_state = "ActivateCard")
                /\ \A patternIndex \in 0 .. (Len(GamePatterns) - 1) :
                      Game_selectActivationPattern(playerId, patternIndex) =>
                         (playerId = onTurn /\ game_state = "SelectActivationPattern")
                /\ \A methodIndex \in 0 .. 1 :
                      Game_selectScoring(playerId, methodIndex) =>
                         (playerId = onTurn /\ game_state = "SelectScoringMethod")
      ]_vars

\* An operation was refused while the players select their scoring methods,
\* one of them having selected.
C27_Witness ==
    /\ game_state = "SelectScoringMethod"
    /\ scorings_selected # {}
    /\ ~game_ok

\* C28: Game.takeCard by the current player in a take-card state either
\* succeeds, and then the drawn card is at `destination` in the player's grid,
\* has left the Pile, and the state is ActivateCard; or it reports failure, as
\* it does whenever the placement is illegal, and then the game state, the
\* player's grid and the Pile are unchanged (the card is still in the Pile).
C28_TakeCard ==
    [][ (game_state \in TakeStates) =>
          \A index \in GameIndices, destination \in GamePositions :
             Game_takeCard(onTurn, index, destination) =>
                /\ ~grid_canPutCard(grids[onTurn], destination) => ~game_ok'
                /\ game_ok' =>
                      /\ destination \in DOMAIN grids'[onTurn].cells
                      /\ grids'[onTurn].cells[destination] = Pile_getCard(index)
                      /\ Pile_getCard(index) \notin
                            Range(visible_cards') \cup Range(hidden_cards')
                               \cup Range(discarded_cards')
                      /\ game_state' = "ActivateCard"
                /\ ~game_ok' =>
                      /\ gameFields' = gameFields
                      /\ stacks' = stacks
      ]_vars

\* C29: discardLastCardFromDeck succeeds only for the current player in
\* TakeCardNoCardDiscarded and moves the state to TakeCardCardDiscarded, in
\* which every discardLastCardFromDeck fails and leaves the pile unchanged;
\* TakeCardNoCardDiscarded is entered again only by a turnFinished.
C29_OneDiscardPerTurn ==
    [][ (game_state \in TakeStates) =>
          /\ \A playerId \in GamePlayers :
                Game_discardLastCardFromDeck(playerId) =>
                   /\ game_ok' =>
                         /\ playerId = onTurn
                         /\ game_state = "TakeCardNoCardDiscarded"
                         /\ game_state' = "TakeCardCardDiscarded"
                   /\ game_state = "TakeCardCardDiscarded" =>
                         /\ ~game_ok'
                         /\ stacks' = stacks
                         /\ gameFields' = gameFields
          /\ game_state = "TakeCardCardDiscarded" =>
                game_state' \in { "TakeCardCardDiscarded", "ActivateCard" }
          /\ (stacks' # stacks /\ game_state = "TakeCardCardDiscarded") =>
                (game_state' = "ActivateCard" \/ ~game_ok')
      ]_vars

\* A second discard was refused.
C29_Witness ==
    /\ game_state = "TakeCardCardDiscarded"
    /\ discarded_cards # << >>
    /\ ~game_ok

\* C30: the state becomes SelectActivationPattern only at a turnFinished after
\* which every player's grid holds 9 cards (and no end-game state is held while
\* a grid holds fewer), becomes SelectScoringMethod only after every player has
\* selected an activation pattern, and Finish only after every player has
\* selected a scoring method; the take-card and ActivateCard states are never
\* entered again afterwards.
C30_EndGameInOrder ==
    [][ game_state' # game_state =>
          /\ game_state' = "SelectActivationPattern" =>
                /\ game_state = "ActivateCard"
                /\ \E p \in GamePlayers : Game_turnFinished(p)
          /\ game_state' \in EndStates => AllGridsFull(grids')
          /\ game_state' = "SelectScoringMethod" =>
                /\ game_state = "SelectActivationPattern"
                /\ patterns_selected' = GamePlayers
                /\ \A p \in GamePlayers : grids'[p].activation_pattern # << >>
          /\ game_state' = "Finish" =>
                /\ game_state = "SelectScoringMethod"
                /\ scorings_selected' = GamePlayers
          /\ game_state \in EndStates => game_state' \in EndStates
      ]_vars

\* The game is finished.
C30_Witness ==
    /\ game_state = "Finish"
    /\ scorings_selected = GamePlayers

\* The positions of grid g that hold a card in the row or the column of P.
SharingLine(g, P) ==
    { Q \in DOMAIN g.cells : Q # P /\ (X(Q) = X(P) \/ Y(Q) = Y(P)) }

MaxCapacity == 2
MaxCardResources == 2

CardResources == { "RED", "MONEY" }
ResourceLists == SeqsUpTo(CardResources, MaxCardResources)

\* The amounts passed to canPlacePollution, placePollution, check, checkLower.
Amounts == (0 - 1) .. (MaxCapacity + 1)

PollutionError == "Cannot place pollution on an inactive card."
PutResourcesError == "Cannot add resources to an inactive card."
GetResourcesError == "Cannot pay these resources from this card."

\* Counter(list)[r]
Counter(list, r) == Cardinality({ i \in DOMAIN list : list[i] = r })

\* CardFake.is_active / isActive
is_active == pollution < pollutionSpacesL

\* canPlacePollution without the test of the sign of the amount.
canPlacePollution_noSignCheck(amount) ==
    IF ~is_active THEN FALSE
    ELSE LET free_slots == pollutionSpacesL - pollution
         IN  IF amount > free_slots THEN FALSE ELSE TRUE

\* canPlacePollution without the test of the free capacity.
canPlacePollution_noFreeCheck(amount) ==
    IF amount < 0 THEN FALSE
    ELSE IF ~is_active THEN FALSE
    ELSE TRUE

\* CardFake.canPlacePollution
canPlacePollution(amount) ==
    IF amount < 0 THEN FALSE
    ELSE IF ~is_active THEN FALSE
    ELSE LET free_slots == pollutionSpacesL - pollution
         IN  IF amount > free_slots THEN FALSE ELSE TRUE

\* CardFake.placePollution
placePollution(amount) ==
    IF amount = 0
    THEN /\ card_raised' = NoError
         /\ UNCHANGED <<pollution, card_resources>>
    ELSE IF ~canPlacePollution(amount)
    THEN /\ card_raised' = PollutionError
         /\ UNCHANGED <<pollution, card_resources>>
    ELSE LET free_slots == pollutionSpacesL - pollution
             use_slots == IF free_slots < amount THEN free_slots ELSE amount
         IN  /\ pollution' = pollution + use_slots
             /\ card_raised' = NoError
             /\ UNCHANGED card_resources

\* CardFake.canPutResources
canPutResources(resources) ==
    IF ~is_active THEN FALSE ELSE TRUE

\* CardFake.putResources
putResources(resources) ==
    IF ~canPutResources(resources)
    THEN /\ card_raised' = PutResourcesError
         /\ UNCHANGED <<pollution, card_resources>>
    ELSE /\ card_resources' = card_resources \o resources
         /\ card_raised' = NoError
         /\ UNCHANGED pollution

\* canGetResources on a card that is not asked whether it is active.
canGetResources_whenInactive(resources) ==
    \A r \in Range(resources) : Counter(card_resources, r) >= Counter(resources, r)

\* CardFake.canGetResources
canGetResources(resources) ==
    IF ~is_active THEN FALSE
    ELSE \A r \in Range(resources) :
            Counter(card_resources, r) >= Counter(resources, r)

\* The loop of getResources from position i on: the first Counter(wanted)[r]
\* resources r are skipped, the others are kept in their order.
RECURSIVE new_contents(_, _, _)
new_contents(contents, wanted, i) ==
    IF i > Len(contents) THEN << >>
    ELSE LET r == contents[i]
             current == Counter(SubSeq(contents, 1, i - 1), r)
         IN  IF current < Counter(wanted, r)
             THEN new_contents(contents, wanted, i + 1)
             ELSE <<r>> \o new_contents(contents, wanted, i + 1)

\* CardFake.getResources
getResources(resources) ==
    IF ~canGetResources(resources)
    THEN /\ card_raised' = GetResourcesError
         /\ UNCHANGED <<pollution, card_resources>>
    ELSE /\ card_resources' = new_contents(card_resources, resources, 1)
         /\ card_raised' = NoError
         /\ UNCHANGED pollution

\* CardFake.check(input, output, pollution): `effect` is what
\* upperEffect.check(input, output, pollution) answers.
check(input, amount, effect) ==
    IF ~is_active THEN FALSE
    ELSE IF ~upperEffect THEN FALSE
    ELSE IF ~canGetResources(input) THEN FALSE
    ELSE IF ~canPlacePollution(amount) THEN FALSE
    ELSE effect

\* CardFake.checkLower(input, output, pollution): `effect` is what
\* lowerEffect.check(input, output, pollution) answers.
checkLower(input, amount, effect) ==
    IF ~is_active THEN FALSE
    ELSE IF ~lowerEffect THEN FALSE
    ELSE IF ~canGetResources(input) THEN FALSE
    ELSE IF ~canPlacePollution(amount) THEN FALSE
    ELSE effect

\* CardFake(pollutionSpacesL, upperEffect, lowerEffect)
CardFake_init(capacity, upper, lower) ==
    /\ card_live' = TRUE
    /\ pollutionSpacesL' = capacity
    /\ pollution' = 0
    /\ card_resources' = << >>
    /\ upperEffect' = upper
    /\ lowerEffect' = lower
    /\ card_raised' = NoError
    /\ UNCHANGED card_returned

\* What the methods of a card never assign.
cardMade == <<card_live, pollutionSpacesL, upperEffect, lowerEffect>>

\* A query answering `answer`.
CardAnswers(answer) ==
    /\ card_returned' = answer
    /\ card_raised' = NoError
    /\ UNCHANGED <<pollution, card_resources>>

\* ---------------------------------------------------------- specification
new_Card ==
    /\ ~card_live
    /\ \E capacity \in 0 .. MaxCapacity, upper \in BOOLEAN, lower \in BOOLEAN :
          CardFake_init(capacity, upper, lower)
    /\ UNCHANGED notCard

call_isActive ==
    /\ card_live
    /\ CardAnswers(is_active)
    /\ UNCHANGED <<cardMade, notCard>>

call_canPlacePollution ==
    /\ card_live
    /\ \E amount \in Amounts : CardAnswers(canPlacePollution(amount))
    /\ UNCHANGED <<cardMade, notCard>>

call_placePollution ==
    /\ card_live
    /\ \E amount \in Amounts : placePollution(amount)
    /\ UNCHANGED <<cardMade, card_returned, notCard>>

call_canPutResources ==
    /\ card_live
    /\ \E resources \in ResourceLists : CardAnswers(canPutResources(resources))
    /\ UNCHANGED <<cardMade, notCard>>

call_putResources ==
    /\ card_live
    /\ \E resources \in ResourceLists :
          /\ Len(card_resources) + Len(resources) <= MaxCardResources
          /\ putResources(resources)
    /\ UNCHANGED <<cardMade, card_returned, notCard>>

call_canGetResources ==
    /\ card_live
    /\ \E resources \in ResourceLists : CardAnswers(canGetResources(resources))
    /\ UNCHANGED <<cardMade, notCard>>

call_getResources ==
    /\ card_live
    /\ \E resources \in ResourceLists : getResources(resources)
    /\ UNCHANGED <<cardMade, card_returned, notCard>>

call_check ==
    /\ card_live
    /\ \E input \in ResourceLists, amount \in Amounts, effect \in BOOLEAN :
          CardAnswers(check(input, amount, effect))
    /\ UNCHANGED <<cardMade, notCard>>

call_checkLower ==
    /\ card_live
    /\ \E input \in ResourceLists, amount \in Amounts, effect \in BOOLEAN :
          CardAnswers(checkLower(input, amount, effect))
    /\ UNCHANGED <<cardMade, notCard>>

CardNext ==
    \/ new_Card
    \/ call_isActive
    \/ call_canPlacePollution
    \/ call_placePollution
    \/ call_canPutResources
    \/ call_putResources
    \/ call_canGetResources
    \/ call_getResources
    \/ call_check
    \/ call_checkLower

CardSpec == Init /\ [][CardNext]_vars

(***************************************************************************)
(* Claims about the card                                                   *)
(***************************************************************************)

\* C32: 0 <= pollution <= pollutionCapacity in every state; placePollution(amount)
\* either fails and leaves pollution unchanged (and it is one of: amount
\* negative, card inactive, amount greater than the free capacity) or adds
\* exactly amount to pollution, and placePollution(0) changes nothing.
C32_PollutionBounded ==
    [][ /\ card_live' => (0 <= pollution' /\ pollution' <= pollutionSpacesL')
        /\ card_live =>
              \A amount \in Amounts :
                 placePollution(amount) =>
                    /\ amount = 0 => (pollution' = pollution /\ card_raised' = NoError)
                    /\ \/ /\ card_raised' # NoError
                          /\ pollution' = pollution
                          /\ \/ amount < 0
                             \/ ~is_active
                             \/ amount > pollutionSpacesL - pollution
                       \/ /\ card_raised' = NoError
                          /\ pollution' = pollution + amount
      ]_vars

\* A placePollution has filled the card, and one has been refused.
C32_Witness ==
    /\ card_live
    /\ pollutionSpacesL = MaxCapacity
    /\ pollution = pollutionSpacesL
    /\ card_raised = PollutionError

\* C33: a card with pollution = pollutionCapacity answers false to
\* canPutResources, canGetResources, canPlacePollution, check and checkLower
\* for every argument, and putResources and getResources fail on it without
\* changing its resources.
C33_InactiveRejectsAll ==
    [][ (card_live /\ pollution = pollutionSpacesL) =>
          /\ \A resources \in ResourceLists :
                /\ ~canPutResources(resources)
                /\ ~canGetResources(resources)
                /\ putResources(resources) =>
                      (card_raised' # NoError /\ card_resources' = card_resources)
                /\ getResources(resources) =>
                      (card_raised' # NoError /\ card_resources' = card_resources)
                /\ \A amount \in Amounts, effect \in BOOLEAN :
                      /\ ~check(resources, amount, effect)
                      /\ ~checkLower(resources, amount, effect)
          /\ \A amount \in Amounts : ~canPlacePollution(amount)
      ]_vars

\* A full card that holds resources has refused to give them.
C33_Witness ==
    /\ card_live
    /\ pollution = pollutionSpacesL
    /\ card_resources # << >>
    /\ card_raised = GetResourcesError

\* C34: pollution never decreases, and a card that is not active is not
\* active after any operation.
C34_InactiveForever ==
    [][ card_live =>
          /\ pollution' >= pollution
          /\ ~is_active => ~is_active'
      ]_vars

\* A card that had capacity left is full, and an operation on it has failed.
C34_Witness ==
    /\ card_live
    /\ pollutionSpacesL > 0
    /\ ~is_active
    /\ card_raised = PutResourcesError

(***************************************************************************)
(* Part 7: ScoringMethod                                                   *)
(*                                                                         *)
(* One ScoringMethod and the resources pooled over the cards of the grid   *)
(* it scores, which change while the game is played.                       *)
(***************************************************************************)

\* The largest base point value of a method.
MaxPoints == 1

NotCalculated == "Scoring method wasn't calculated"
AlreadyCalculated == "AlreadyCalculated"

\* The integer computed from the pooled resources, the required resources
\* and the base point value: a point per pooled resource, and the base
\* points when the pool holds the required resources.
Score(pool, required, points) ==
    Len(pool) +
       (IF /\ required # << >>
           /\ \A r \in Range(required) : Counter(pool, r) >= Counter(required, r)
        THEN points ELSE 0)

\* ScoringMethod(resources, pointsPerCombination, grid)
ScoringMethod_init(required, points) ==
    /\ scoring_live' = TRUE
    /\ scoring_required' = required
    /\ scoring_points' = points
    /\ calculatedTotal' = << >>
    /\ scoring_raised' = NoError
    /\ UNCHANGED <<scored_pool, scoring_state>>

\* selectThisMethodAndCalculate computing again when a result is cached.
selectThisMethodAndCalculate_again ==
    /\ calculatedTotal' = <<Score(scored_pool, scoring_required, scoring_points)>>
    /\ scoring_raised' = NoError
    /\ UNCHANGED <<scoring_live, scoring_required, scoring_points, scored_pool,
                   scoring_state>>

\* ScoringMethod.selectThisMethodAndCalculate
selectThisMethodAndCalculate ==
    IF calculatedTotal # << >>
    THEN /\ scoring_raised' = AlreadyCalculated
         /\ UNCHANGED <<scoring_live, scoring_required, scoring_points,
                        scored_pool, calculatedTotal, scoring_state>>
    ELSE /\ calculatedTotal' = <<Score(scored_pool, scoring_required, scoring_points)>>
         /\ scoring_raised' = NoError
         /\ UNCHANGED <<scoring_live, scoring_required, scoring_points,
                        scored_pool, scoring_state>>

\* ScoringMethod.state
ScoringMethod_state ==
    /\ scoring_state' = IF calculatedTotal = << >>
                        THEN NotCalculated
                        ELSE ToString(calculatedTotal[1])
    /\ scoring_raised' = NoError
    /\ UNCHANGED <<scoring_live, scoring_required, scoring_points, scored_pool,
                   calculatedTotal>>

\* ---------------------------------------------------------- specification
new_ScoringMethod ==
    /\ ~scoring_live
    /\ \E required \in ResourceLists, points \in 0 .. MaxPoints :
          ScoringMethod_init(required, points)
    /\ UNCHANGED notScoring

\* The cards of the scored grid gain or lose resources.
grid_resources_change ==
    /\ \E pool \in ResourceLists :
          /\ pool # scored_pool
          /\ scored_pool' = pool
    /\ UNCHANGED <<scoring_live, scoring_required, scoring_points,
                   calculatedTotal, scoring_state, scoring_raised>>
    /\ UNCHANGED notScoring

call_selectThisMethodAndCalculate ==
    /\ scoring_live
    /\ selectThisMethodAndCalculate
    /\ UNCHANGED notScoring

call_state ==
    /\ scoring_live
    /\ ScoringMethod_state
    /\ UNCHANGED notScoring

ScoringNext ==
    \/ new_ScoringMethod
    \/ grid_resources_change
    \/ call_selectThisMethodAndCalculate
    \/ call_state

ScoringSpec == Init /\ [][ScoringNext]_vars

(***************************************************************************)
(* Claims about ScoringMethod                                              *)
(***************************************************************************)

\* C35: state() reports "not calculated" until the first
\* selectThisMethodAndCalculate; that call caches an integer; every later
\* selectThisMethodAndCalculate fails; and the cached result, which state()
\* reports, never changes afterwards, whatever happens to the grid.
C35_CalculatedOnce ==
    [][ scoring_live =>
          /\ calculatedTotal # << >> => calculatedTotal' = calculatedTotal
          /\ calculatedTotal' # calculatedTotal => selectThisMethodAndCalculate
          /\ selectThisMethodAndCalculate =>
                IF calculatedTotal = << >>
                THEN /\ scoring_raised' = NoError
                     /\ Len(calculatedTotal') = 1
                     /\ calculatedTotal'[1] \in Int
                ELSE scoring_raised' # NoError
          /\ ScoringMethod_state =>
                IF calculatedTotal = << >>
                THEN scoring_state' = NotCalculated
                ELSE scoring_state' = ToString(calculatedTotal[1])
      ]_vars

\* A second calculation was refused after the grid changed, and state()
\* reports the cached result, which is not what the grid scores now.
C35_Witness ==
    /\ scoring_live
    /\ calculatedTotal # << >>
    /\ scoring_raised = AlreadyCalculated
    /\ calculatedTotal[1] # Score(scored_pool, scoring_required, scoring_points)
    /\ scoring_state = ToString(calculatedTotal[1])

(***************************************************************************)
(* Further claims about the Pile                                           *)
(***************************************************************************)

\* The window v topped up from the hidden stack h, each card pulled being the
\* top of h and entering at slot 1.
RECURSIVE PulledToSlotOne(_, _)
PulledToSlotOne(v, h) ==
    IF Len(v) >= WINDOW \/ h = << >> THEN v
    ELSE PulledToSlotOne(<<Last(h)>> \o v, Front(h))

\* C36: when a slot is vacated by takeCard(i), 1 <= i <= 4, or by
\* removeLastCard, or the window is topped up at construction, each card
\* pulled from the hidden stack is the top (last) card of that stack and
\* enters the window at slot 1, the visible cards keeping their order behind
\* it.  (Stated for the refills that need no reshuffle.)
C36_RefillAtSlotOne ==
    [][ (pile_raised' = NoError /\ shuffler_calls' = << >>) =>
          /\ pile_phase = "new" =>
                \A input \in PileInputs :
                   Pile_init(input[1], input[2]) =>
                      visible_cards' = PulledToSlotOne(input[1], input[2])
          /\ (pile_phase = "live" /\ Len(visible_cards) = WINDOW) =>
                /\ \A index \in 1 .. WINDOW :
                      Pile_takeCard(index) =>
                         visible_cards' =
                            PulledToSlotOne(RemoveAt(visible_cards, index), hidden_cards)
                /\ Pile_removeLastCard =>
                      visible_cards' = PulledToSlotOne(Front(visible_cards), hidden_cards)
      ]_vars

\* The cards in the pile, and the number of places they take.
CardsInPile == Range(visible_cards) \cup Range(hidden_cards) \cup Range(discarded_cards)
PlacesInPile == Len(visible_cards) + Len(hidden_cards) + Len(discarded_cards)

\* C37: with distinct initial cards and a shuffler that returns a permutation,
\* in every state of a pile each card is in at most one of the three stacks
\* (and there once); removeLastCard leaves the set of cards in the pile
\* unchanged; each successful takeCard removes exactly the returned card.
C37_CardsConserved ==
    [][ pile_phase' = "live" =>
          /\ PlacesInPile' = Cardinality(CardsInPile')
          /\ pile_phase = "live" =>
                /\ Pile_removeLastCard => CardsInPile' = CardsInPile
                /\ pile_raised' = NoError =>
                      \A index \in Indices :
                         Pile_takeCard(index) =>
                            /\ returned' \in CardsInPile
                            /\ CardsInPile' = CardsInPile \ { returned' }
      ]_vars

\* A card was taken by a takeCard that reshuffled the discard stack.
C37_Witness ==
    /\ pile_phase = "live"
    /\ pile_raised = NoError
    /\ returned # None
    /\ shuffler_calls # << >>
    /\ hidden_cards # << >>

\* C38: in every state of a successfully constructed pile, whatever takeCard
\* and removeLastCard calls came before, a removeLastCard succeeds.
C38_DiscardNeverStarves ==
    [][ (pile_phase = "live" /\ Pile_removeLastCard) => pile_raised' = NoError ]_vars

(***************************************************************************)
(* Further claims about SelectReward                                       *)
(***************************************************************************)

\* C39: in SELECTED the selection holds exactly one resource, which was among
\* the options passed to the most recent setReward; in PENDING and SELECTED
\* the player is set.  (The selection is the options passed by every setReward
\* step, stays what it is in PENDING, becomes one of its resources at the
\* step to SELECTED, and stays what it is in SELECTED.)
C39_SelectedOneOfOffered ==
    [][ /\ reward_state' = "SELECTED" => Len(selection') = 1
        /\ reward_state' \in { "PENDING", "SELECTED" } => reward_player' # None
        /\ IsSetReward => selection' = lists.caller
        /\ ~IsSetReward =>
              /\ reward_state' = reward_state => selection' = selection
              /\ (reward_state = "PENDING" /\ reward_state' = "SELECTED") =>
                    selection'[1] \in Range(selection)
              /\ reward_state' = "SELECTED" => reward_state \in { "PENDING", "SELECTED" }
      ]_vars

\* A resource is selected that the caller's list no longer holds.
C39_Witness ==
    /\ reward_state = "SELECTED"
    /\ Len(selection) = 1
    /\ selection[1] \notin Range(lists.caller)
    /\ reward_player # None

(***************************************************************************)
(* Further claims about the Grid                                           *)
(***************************************************************************)

\* C40: in every state of a Grid canBeActivated(pos) is false for every
\* position that holds no card, and a setActivated on such a position fails
\* and marks nothing, whatever activation pattern is stored.
C40_OnlyPlacedCardsActivate ==
    [][ \A pos \in GridPosition \ Occupied :
           /\ ~canBeActivated(pos)
           /\ (cells' = cells /\ setActivated(pos)) =>
                 /\ raised' = ActivateError
                 /\ activated_this_turn' = activated_this_turn
      ]_vars

\* A setActivated was refused while the stored pattern names a position that
\* holds no card.
C40_Witness ==
    /\ raised = ActivateError
    /\ Occupied # {}
    /\ \E pos \in Range(activation_pattern) : pos \notin Occupied

====
